---- MODULE Spec2Model ----
(***************************************************************************)
(* Model of parse_eyedata (src/parser.py): the single-pass parser of       *)
(* EyeLink .asc traces.  The state is the set of local variables of        *)
(* parse_eyedata, the lines the file iterator has yielded so far, and the  *)
(* way the call has ended (still reading, returned, raised).               *)
(*                                                                         *)
(* Numbers.  A Python float is represented by the integer number of        *)
(* thousandths it holds (1.06 is 1060, 605.0 is 605000), which is exact    *)
(* for every value the parser computes from the bounded input: float() of  *)
(* a digit string, and that float divided by 1000.                         *)
(*                                                                         *)
(* Lines.  A line is the sequence of its whitespace-separated tokens.  A   *)
(* token is a word (its text), an int (text matching \d+, its value) or a  *)
(* dec (text matching \d+\.\d+, its value in thousandths).                 *)
(*                                                                         *)
(* The module also models VideoTrial.run_trial (src/trial.py), the writer  *)
(* of the trial messages of such a trace: its state is the sequence of the *)
(* calls it makes on its tracker object and its position in run_trial.     *)
(* construct_experiment_section (src/main.py) is an operator over the list *)
(* of video paths; a path is the sequence of the pieces of its text, of    *)
(* which the piece "_intra" is the one str.replace acts on.                *)
(* partition_list (src/pseudo_latin_square.py) is an operator over a list  *)
(* of stimuli and a number of groups.  EyeLink.drift_check and             *)
(* fake_drift_check (src/eyetracking.py) are modelled with the stack of    *)
(* their calls that have not returned and the history of the calls, the    *)
(* calls of doDriftCorrect and the returns of a session.                   *)
(***************************************************************************)
EXTENDS Integers, Sequences, FiniteSets, TLC

\* ------------------------------------------------------------------ bounds
\* Longest input file, in lines.
MaxLines == 4
\* Wire timestamps of the trial boundary messages are drawn from 1..MaxTime.
MaxTime == 2
\* Longest video, in frames drawn before the video reports FINISHED.
MaxFrames == 2
\* Number of run_trial calls of a session.
MaxRuns == 2
\* Longest list of video paths of an experiment section.
MaxVideos == 3
\* The longest list partition_list is given, and the largest number of groups.
MaxItems == 6
MaxGroups == 4
\* Drift checks asked for in a session, and calls nested in one another.
MaxCalls == 2
MaxDepth == 3

\* ------------------------------------------------------------------ tokens
W(s) == [k |-> "word", s |-> s, n |-> 0]
I(n) == [k |-> "int", s |-> "", n |-> n]
D(n) == [k |-> "dec", s |-> "", n |-> n]

\* Python's None, and a value that is set: an optional is a sequence of
\* length 0 or 1.
None == <<>>
Some(v) == <<v>>

\* Words made only of the characters [a-z_].
LowerWords == {"rt", "scene_name", "trial_index", "foo", "abc"}

\* Pairs <<p, w>> of the vocabulary where p is a proper prefix of w.
ProperPrefixes == {<<"SSAC", "SSACC">>}

\* str.startswith on the text of a word, and a regex literal matched at
\* the start of a word (re.match does not anchor the end of the pattern).
HasPrefix(w, p) == w = p \/ <<p, w>> \in ProperPrefixes

\* line.startswith(p)
StartsWith(line, p) ==
    /\ Len(line) >= 1
    /\ line[1].k = "word"
    /\ HasPrefix(line[1].s, p)

\* The token at position i of the line matches the literal word p, (\d+)
\* followed by whitespace, (\d+\.\d+), a final (\d+), (L|R), [a-z_]+ and
\* [a-z0-9_.]+ respectively.
IsLit(line, i, p) == Len(line) >= i /\ line[i].k = "word" /\ line[i].s = p
IsLitPrefix(line, i, p) ==
    Len(line) >= i /\ line[i].k = "word" /\ HasPrefix(line[i].s, p)
IsInt(line, i) == Len(line) >= i /\ line[i].k = "int"
IsDec(line, i) == Len(line) >= i /\ line[i].k = "dec"
IsLastInt(line, i) == Len(line) >= i /\ line[i].k \in {"int", "dec"}
IsEye(line, i) == Len(line) >= i /\ line[i].k = "word" /\ line[i].s \in {"L", "R"}
IsKey(line, i) ==
    Len(line) >= i /\ line[i].k = "word" /\ line[i].s \in LowerWords
IsValue(line, i) ==
    /\ Len(line) >= i
    /\ \/ line[i].k \in {"int", "dec"}
       \/ line[i].k = "word" /\ line[i].s \in LowerWords

\* ------------------------------------------------------- numeric conversion
\* float(text) of a token the patterns captured: an int token holds whole
\* units, a dec token holds thousandths.
ToFloat(tok) == IF tok.k = "int" THEN tok.n * 1000 ELSE tok.n

\* float(text) raises ValueError on text that is not a number; int(text)
\* raises ValueError on anything but a digit string.
FloatRaises(tok) == tok.k \notin {"int", "dec"}
IntRaises(tok) == tok.k # "int"
ToInt(tok) == tok.n

\* ToSeconds without the division: the value stays in milliseconds.
ToSecondsUndivided(x) == x

\* x /= 1000  # to seconds
ToSeconds(x) == x \div 1000

\* ---------------------------------------------------------------- patterns
\* r'MSG\s+(\d+)\s+TRIAL_START' and the three other keyword messages.
MatchMsg(line, keyword) ==
    /\ IsLit(line, 1, "MSG")
    /\ IsInt(line, 2)
    /\ IsLitPrefix(line, 3, keyword)

\* r'MSG\s+(\d+)\s+!V\s+TRIAL_VAR\s+([a-z_]+)\s+([a-z0-9_.]+)'
MatchTrialVar(line) ==
    /\ IsLit(line, 1, "MSG")
    /\ IsInt(line, 2)
    /\ IsLit(line, 3, "!V")
    /\ IsLit(line, 4, "TRIAL_VAR")
    /\ IsKey(line, 5)
    /\ IsValue(line, 6)

\* MatchEFIX taking any text for the start time.
MatchEFIXLoosely(line) ==
    /\ IsLit(line, 1, "EFIX")
    /\ IsEye(line, 2)
    /\ Len(line) >= 3 /\ IsInt(line, 4) /\ IsInt(line, 5)
    /\ IsDec(line, 6) /\ IsDec(line, 7)
    /\ IsLastInt(line, 8)

\* r'EFIX (L|R)\s+(\d+)\s+(\d+)\s+(\d+)\s+(\d+\.\d+)\s+(\d+\.\d+)\s+(\d+)'
MatchEFIX(line) ==
    /\ IsLit(line, 1, "EFIX")
    /\ IsEye(line, 2)
    /\ IsInt(line, 3) /\ IsInt(line, 4) /\ IsInt(line, 5)
    /\ IsDec(line, 6) /\ IsDec(line, 7)
    /\ IsLastInt(line, 8)

\* r'ESACC (L|R)\s+(\d+)\s+(\d+)\s+(\d+)\s+(\d+\.\d+)\s+(\d+\.\d+)\s+
\*   (\d+\.\d+)\s+(\d+\.\d+)\s+(\d+\.\d+)\s+(\d+)'
MatchESACC(line) ==
    /\ IsLit(line, 1, "ESACC")
    /\ IsEye(line, 2)
    /\ IsInt(line, 3) /\ IsInt(line, 4) /\ IsInt(line, 5)
    /\ IsDec(line, 6) /\ IsDec(line, 7) /\ IsDec(line, 8)
    /\ IsDec(line, 9) /\ IsDec(line, 10)
    /\ IsLastInt(line, 11)

\* r'EBLINK (L|R)\s+(\d+)\s+(\d+)\s+(\d+)'
MatchEBLINK(line) ==
    /\ IsLit(line, 1, "EBLINK")
    /\ IsEye(line, 2)
    /\ IsInt(line, 3) /\ IsInt(line, 4)
    /\ IsLastInt(line, 5)

MatchGazeUnmarked(line) ==
    /\ IsInt(line, 1)
    /\ IsDec(line, 2) /\ IsDec(line, 3)
    /\ Len(line) >= 4 /\ line[4].k = "dec"
\* r'(\d+)\s+(\d+\.\d+)\s+(\d+\.\d+)\s+(\d+\.\d+).*\.\.\.'
MatchGaze(line) ==
    /\ IsInt(line, 1)
    /\ IsDec(line, 2) /\ IsDec(line, 3)
    /\ Len(line) >= 4 /\ line[4].k = "dec"
    /\ \E i \in 5..Len(line) : line[i] = W("...")

\* The cascade of re.match calls of the loop body: the first pattern that
\* matches decides the branch, a line matching none falls out of the body.
Classify(line) ==
    IF MatchMsg(line, "TRIAL_START") THEN "TRIAL_START"
    ELSE IF MatchMsg(line, "TRIAL_END") THEN "TRIAL_END"
    ELSE IF MatchMsg(line, "BUTTON_PRESS") THEN "BUTTON_PRESS"
    ELSE IF MatchMsg(line, "VIDEO_STIM_ONSET") THEN "VIDEO_STIM_ONSET"
    ELSE IF MatchTrialVar(line) THEN "TRIAL_VAR"
    ELSE IF MatchEFIX(line) THEN "EFIX"
    ELSE IF MatchESACC(line) THEN "ESACC"
    ELSE IF MatchEBLINK(line) THEN "EBLINK"
    ELSE IF MatchGaze(line) THEN "GAZE"
    ELSE "NONE"

\* ------------------------------------------------------------ record types
FixationTransposed(start, stop, x, y) ==
    [start |-> start, stop |-> stop, x |-> y, y |-> x]
Fixation(start, stop, x, y) == [start |-> start, stop |-> stop, x |-> x, y |-> y]

Saccade(start, stop, start_x, start_y, end_x, end_y, amp, peak_vel) ==
    [start |-> start, stop |-> stop, start_x |-> start_x, start_y |-> start_y,
     end_x |-> end_x, end_y |-> end_y, amp |-> amp, peak_vel |-> peak_vel]

Blink(start, stop) == [start |-> start, stop |-> stop]

Gaze(time, x, y, fixation, saccade, blink, event) ==
    [time |-> time, x |-> x, y |-> y, fixation |-> fixation,
     saccade |-> saccade, blink |-> blink, event |-> event]

\* -------------------------------------------------------------- input lines
Times == 1..MaxTime

Msg(t, keyword) == <<W("MSG"), I(t), W(keyword)>>
TrialVar(t, key, value) ==
    <<W("MSG"), I(t), W("!V"), W("TRIAL_VAR"), key, value>>
EFIXLine(start, stop) ==
    <<W("EFIX"), W("R"), I(start), I(stop), I(1), D(605000), D(405000), I(1150)>>
ESACCLine(start, stop) ==
    <<W("ESACC"), W("R"), I(start), I(stop), I(1), D(973700), D(575100),
      D(965600), D(440600), D(2290), I(134)>>
EBLINKLine(start, stop) == <<W("EBLINK"), W("R"), I(start), I(stop), I(1)>>
GazeLine(t) == <<I(t), D(958800), D(551200), D(1183000), W("...")>>

\* A start-of-span marker of each type, and a line no pattern matches
\* although it starts like an EFIX line: its first time field is no number.
SFIXLine == <<W("SFIX"), W("R"), I(1)>>
SSACCLine == <<W("SSACC"), W("R"), I(1)>>
SBLINKLine == <<W("SBLINK"), W("R"), I(1)>>
BadEFIXLine ==
    <<W("EFIX"), W("R"), W("abc"), I(2), I(1), D(605000), D(405000), I(1150)>>

\* The lines every input is drawn from: one line at least for each branch
\* of the loop body.
CommonLines ==
    { Msg(1, "BUTTON_PRESS"),
      Msg(1, "VIDEO_STIM_ONSET"),
      TrialVar(2, W("rt"), D(450)),
      TrialVar(2, W("rt"), W("abc")),
      SFIXLine,
      EFIXLine(1, 2),
      ESACCLine(1, 2),
      EBLINKLine(1, 2),
      GazeLine(1) }

\* Inputs that vary the timestamps of the trial boundaries.
Lines ==
    CommonLines
    \cup {Msg(t, "TRIAL_START") : t \in Times}
    \cup {Msg(t, "TRIAL_END") : t \in Times}
    \cup {BadEFIXLine}

\* Inputs that vary the span markers.
SpanLines ==
    CommonLines
    \cup {Msg(1, "TRIAL_START"), Msg(2, "TRIAL_END")}
    \cup {SSACCLine, SBLINKLine}

\* The six-line trace of a whole trial: a stimulus onset, one fixation and
\* a response time between the boundaries.
ScenarioA ==
    << Msg(1000, "TRIAL_START"),
       Msg(1050, "VIDEO_STIM_ONSET"),
       <<W("SFIX"), W("R")>>,
       <<W("EFIX"), W("R"), I(1060), I(1200), I(140), D(605000), D(405000), I(1150)>>,
       TrialVar(1500, W("rt"), D(450)),
       Msg(1600, "TRIAL_END") >>

\* Lines no pattern matches and no startswith test takes: a line of the
\* recording log, and a sample line without the trailing "..." marker.
NoiseLine == <<W("END"), I(1600), W("SAMPLES"), W("EVENTS")>>
BareSampleLine == <<I(1100), D(958800), D(551200), D(1183000)>>

\* Inputs made of the lines of the trace, of noise, and of one line for
\* each branch the trace does not take.
ScenarioLines ==
    {ScenarioA[i] : i \in 1..Len(ScenarioA)}
    \cup { Msg(1200, "BUTTON_PRESS"),
           TrialVar(1500, W("rt"), W("abc")),
           ESACCLine(1100, 1150),
           EBLINKLine(1300, 1400),
           GazeLine(1100),
           NoiseLine,
           BareSampleLine }

\* Inputs of the lines of the trace and one line for each other branch.
BranchLines == ScenarioLines \ {NoiseLine, BareSampleLine}

\* Inputs with two lines that differ in time for each record type.
OrderLines ==
    { Msg(1, "TRIAL_START"),
      Msg(2, "TRIAL_END"),
      Msg(1, "BUTTON_PRESS"),
      Msg(1, "VIDEO_STIM_ONSET"),
      TrialVar(2, W("rt"), D(450)),
      TrialVar(2, W("rt"), W("abc")),
      SFIXLine,
      EFIXLine(1, 2), EFIXLine(2, 2),
      ESACCLine(1, 2), ESACCLine(2, 2),
      EBLINKLine(1, 2), EBLINKLine(2, 2),
      GazeLine(1), GazeLine(2) }

\* The inputs of SpanLines and a close-marker line that fails its pattern.
FlagLines == SpanLines \cup {BadEFIXLine}

\* Inputs with two lines that differ in value for the button press, the
\* stimulus onset and the response time.
WriterLines ==
    { Msg(1, "TRIAL_START"),
      Msg(2, "TRIAL_END"),
      Msg(1, "BUTTON_PRESS"), Msg(2, "BUTTON_PRESS"),
      Msg(1, "VIDEO_STIM_ONSET"), Msg(2, "VIDEO_STIM_ONSET"),
      TrialVar(2, W("rt"), D(450)), TrialVar(2, W("rt"), D(300)),
      TrialVar(2, W("rt"), W("abc")),
      TrialVar(2, W("scene_name"), W("foo")),
      SFIXLine,
      EFIXLine(1, 2),
      ESACCLine(1, 2),
      EBLINKLine(1, 2),
      GazeLine(1) }

\* Inputs that vary the trial variables: the three variables the parser
\* knows, a variable it does not know whose value is the name of one it
\* knows, and a scene whose name is the name of a variable.
VarLines ==
    { Msg(1, "TRIAL_START"),
      Msg(2, "TRIAL_END"),
      Msg(1, "BUTTON_PRESS"),
      Msg(1, "VIDEO_STIM_ONSET"),
      TrialVar(2, W("rt"), D(450)),
      TrialVar(2, W("scene_name"), W("foo")),
      TrialVar(2, W("trial_index"), I(3)),
      TrialVar(2, W("foo"), W("scene_name")),
      TrialVar(2, W("scene_name"), W("rt")),
      SFIXLine,
      EFIXLine(1, 2),
      ESACCLine(1, 2),
      EBLINKLine(1, 2),
      GazeLine(1) }

\* A whole trial of one sample.
FirstTrial == <<Msg(1, "TRIAL_START"), GazeLine(1), Msg(2, "TRIAL_END")>>

\* The input files: every file of at most MaxLines lines, the trace
\* ScenarioA in full, and every file that goes on after FirstTrial for
\* fewer than MaxLines lines.
IsPrefix(h, full) == Len(h) <= Len(full) /\ SubSeq(full, 1, Len(h)) = h
InputFile(h) ==
    \/ Len(h) <= MaxLines
    \/ IsPrefix(h, ScenarioA)
    \/ Len(h) < Len(FirstTrial) + MaxLines /\ IsPrefix(FirstTrial, h)

\* The branches of the loop body, and the lines of an input set L that take
\* each of them.
Shapes ==
    {"TRIAL_START", "TRIAL_END", "BUTTON_PRESS", "VIDEO_STIM_ONSET",
     "TRIAL_VAR", "EFIX", "ESACC", "EBLINK", "GAZE", "NONE"}
ByShape(L) == [shape \in Shapes |-> {line \in L : Classify(line) = shape}]
LinesByShape == ByShape(Lines)
SpanLinesByShape == ByShape(SpanLines)
ScenarioLinesByShape == ByShape(ScenarioLines)
VarLinesByShape == ByShape(VarLines)
BranchLinesByShape == ByShape(BranchLines)
OrderLinesByShape == ByShape(OrderLines)
FlagLinesByShape == ByShape(FlagLines)
WriterLinesByShape == ByShape(WriterLines)

\* ------------------------------------------------------------------- state
VARIABLES
    f,                  \* the lines the iteration over the file has yielded
    status,             \* "reading", "returned" or "raised"
    exception,          \* the exception that ended the call, if one did
    result,             \* the value returned to the caller
    trials,
    trial_idx,
    trial_time_start,
    trial_time_end,
    button_press_time,
    stim_onset_time,
    scene_name,
    response_time,
    fixations,
    saccades,
    blinks,
    gaze,
    is_fixation_event,
    is_saccade_event,
    is_blink_event,
    event_flag,
    trial,
    eyelink,            \* the calls made on self.eyelink, in order
    pc,                 \* where run_trial stands
    frame_count,
    keys,               \* the last value of event.getKeys(['f','j'])
    id,                 \* the id of the VideoTrial that runs or runs next
    video_paths,        \* the arguments of construct_experiment_section
    red_button,
    experiment_trials,  \* the list it returned, None before the call
    items,              \* the arguments of partition_list
    num_groups,
    groups,             \* the list it returned, None before the call
    disable_drift_checks,
    stack,              \* the calls of drift_check and fake_drift_check
                        \* that have not returned, the innermost last
    history             \* the calls, the calls on self.tracker and the
                        \* returns of the session, in order

scalars == <<trial_idx, button_press_time, stim_onset_time, scene_name, response_time>>
records == <<fixations, saccades, blinks, gaze>>
spans == <<is_fixation_event, is_saccade_event, is_blink_event, event_flag>>
outcome == <<status, exception, result>>
parser == <<f, outcome, trials, trial_time_start, trial_time_end, scalars,
            records, spans, trial>>
runner == <<eyelink, pc, frame_count, keys, id>>
section == <<video_paths, red_button, experiment_trials>>
partition == <<items, num_groups, groups>>
link == <<disable_drift_checks, stack, history>>
vars == <<parser, runner, section, partition, link>>

\* The locals of parse_eyedata before the loop.
InitParser ==
    /\ f = <<>>
    /\ status = "reading"
    /\ exception = None
    /\ result = None
    /\ trials = <<>>
    /\ trial_idx = None
    /\ trial_time_start = None
    /\ trial_time_end = None
    /\ button_press_time = None
    /\ stim_onset_time = None
    /\ scene_name = None
    /\ response_time = None
    /\ fixations = <<>>
    /\ saccades = <<>>
    /\ blinks = <<>>
    /\ gaze = <<>>
    /\ is_fixation_event = FALSE
    /\ is_saccade_event = FALSE
    /\ is_blink_event = FALSE
    /\ event_flag = "None"
    /\ trial = None

\* No call made on the tracker yet, no trial running.
InitRunner ==
    /\ eyelink = <<>>
    /\ pc = "idle"
    /\ frame_count = 0
    /\ keys = {}
    /\ id = 0

\* A section of no video, not constructed.
InitSection ==
    /\ video_paths = <<>>
    /\ red_button = "f"
    /\ experiment_trials = None

\* An empty list to partition in the default four groups, not partitioned.
InitPartition ==
    /\ items = <<>>
    /\ num_groups = 4
    /\ groups = None

\* EyeLink.__init__: drift checks enabled, no call made.
InitLink ==
    /\ disable_drift_checks = FALSE
    /\ stack = <<>>
    /\ history = <<>>

Init == InitParser /\ InitRunner /\ InitSection /\ InitPartition /\ InitLink

\* ------------------------------------------------------------ the loop body
\* Read yielding the line a second time.
ReadAgain(line, shape) ==
    /\ status = "reading"
    /\ InputFile(Append(f, line))
    /\ Classify(line) = shape
    /\ f' = Append(Append(f, line), line)
    /\ UNCHANGED <<runner, section, partition, link>>

\* `for line in f`: the iteration yields one more line, which the cascade
\* sends to the branch `shape`.
Read(line, shape) ==
    /\ status = "reading"
    /\ InputFile(Append(f, line))
    /\ Classify(line) = shape
    /\ f' = Append(f, line)
    /\ UNCHANGED <<runner, section, partition, link>>

\* The three startswith tests at the top of the loop body, run on every
\* line before the cascade: the values of the span variables after them.
OpenedFixation(line) == StartsWith(line, "SFIX") \/ is_fixation_event
OpenedSaccadeUnlessFixation(line) ==
    (StartsWith(line, "SSAC") \/ is_saccade_event) /\ ~StartsWith(line, "SFIX")
OpenedSaccade(line) == StartsWith(line, "SSAC") \/ is_saccade_event
OpenedBlinkUnmarked(line) == is_blink_event
OpenedBlink(line) == StartsWith(line, "SBLINK") \/ is_blink_event
OpenedEvent(line) ==
    IF StartsWith(line, "SBLINK") THEN "blink"
    ELSE IF StartsWith(line, "SSAC") THEN "saccade"
    ELSE IF StartsWith(line, "SFIX") THEN "fixation"
    ELSE event_flag

OpenSpans(line) ==
    /\ is_fixation_event' = OpenedFixation(line)
    /\ is_saccade_event' = OpenedSaccade(line)
    /\ is_blink_event' = OpenedBlink(line)
    /\ event_flag' = OpenedEvent(line)

\* The timestamp group of a MSG line, in seconds.
MsgSeconds(line) == ToSeconds(ToFloat(line[2]))

\* OpenTrial making a new dict whether or not a trial is open.
OpenTrialAnew(line) == Some([start_time |-> MsgSeconds(line)])

\* `if trial is None` makes the dict; the else branch asserts a ValueError
\* object, which is true, and changes nothing.
OpenTrial(line) ==
    IF trial = None
    THEN Some([start_time |-> MsgSeconds(line)])
    ELSE trial

\* "MSG 314108 TRIAL_START"
TrialStart(line) ==
    /\ Read(line, "TRIAL_START")
    /\ OpenSpans(line)
    /\ trial_time_start' = Some(MsgSeconds(line))
    /\ trial' = OpenTrial(line)
    /\ UNCHANGED <<outcome, trials, trial_time_end, scalars, records>>

\* SealedTrial with the samples in reverse order.
SealedTrialBackwards(end_time) ==
    [ start_time |-> trial[1].start_time,
      idx |-> trial_idx,
      end_time |-> end_time,
      gaze |-> [j \in 1..Len(gaze) |-> gaze[Len(gaze) + 1 - j]],
      fixations |-> fixations,
      saccades |-> saccades,
      blinks |-> blinks,
      response_time |-> response_time,
      scene_name |-> scene_name,
      button_press_time |-> button_press_time,
      stimulus_onset_time |-> stim_onset_time ]

\* The dict appended to trials by a TRIAL_END read while a trial is open.
SealedTrial(end_time) ==
    [ start_time |-> trial[1].start_time,
      idx |-> trial_idx,
      end_time |-> end_time,
      gaze |-> gaze,
      fixations |-> fixations,
      saccades |-> saccades,
      blinks |-> blinks,
      response_time |-> response_time,
      scene_name |-> scene_name,
      button_press_time |-> button_press_time,
      stimulus_onset_time |-> stim_onset_time ]

\* AppendTrial putting the trial in the list twice.
AppendTrialTwice(t) == Append(Append(trials, t), t)

\* AppendTrial starting the list again at each trial.
RestartTrials(t) == <<t>>

\* AppendTrial putting the trial at the head of the list.
PrependTrial(t) == <<t>> \o trials

\* trials.append(trial)
AppendTrial(t) == Append(trials, t)

\* ResetSpans leaving the blink flag as it is.
ResetSpansKeepsBlink ==
    /\ is_fixation_event' = FALSE
    /\ is_saccade_event' = FALSE
    /\ is_blink_event' = is_blink_event
    /\ event_flag' = "None"

\* The reset of the span variables after a trial is appended.
ResetSpans ==
    /\ is_fixation_event' = FALSE
    /\ is_saccade_event' = FALSE
    /\ is_blink_event' = FALSE
    /\ event_flag' = "None"

\* ResetRecords leaving the samples in the accumulator.
ResetRecordsKeepsGaze ==
    /\ fixations' = <<>>
    /\ saccades' = <<>>
    /\ blinks' = <<>>
    /\ gaze' = gaze

\* The accumulators are bound to new empty lists after a trial is appended.
ResetRecords ==
    /\ fixations' = <<>>
    /\ saccades' = <<>>
    /\ blinks' = <<>>
    /\ gaze' = <<>>

\* "MSG 314108 TRIAL_END"
TrialEnd(line) ==
    /\ Read(line, "TRIAL_END")
    /\ IF trial # None
       THEN /\ trials' = AppendTrial(SealedTrial(MsgSeconds(line)))
            /\ trial_idx' = None
            /\ trial_time_start' = None
            /\ trial_time_end' = None
            /\ button_press_time' = None
            /\ stim_onset_time' = None
            /\ scene_name' = None
            /\ response_time' = None
            /\ ResetRecords
            /\ ResetSpans
            /\ trial' = None
       ELSE /\ OpenSpans(line)
            /\ trial_time_end' = Some(MsgSeconds(line))
            /\ UNCHANGED <<trials, trial_time_start, scalars, records, trial>>
    /\ UNCHANGED outcome

\* ButtonPress keeping the time of the first press.
ButtonPressOnce(line) ==
    /\ Read(line, "BUTTON_PRESS")
    /\ OpenSpans(line)
    /\ button_press_time' = IF button_press_time = None
                            THEN Some(MsgSeconds(line))
                            ELSE button_press_time
    /\ UNCHANGED <<outcome, trials, trial_time_start, trial_time_end, trial_idx,
                   stim_onset_time, scene_name, response_time, records, trial>>

\* "MSG 314108 BUTTON_PRESS"
ButtonPress(line) ==
    /\ Read(line, "BUTTON_PRESS")
    /\ OpenSpans(line)
    /\ button_press_time' = Some(MsgSeconds(line))
    /\ UNCHANGED <<outcome, trials, trial_time_start, trial_time_end, trial_idx,
                   stim_onset_time, scene_name, response_time, records, trial>>

\* "MSG 314108 VIDEO_STIM_ONSET"
VideoStimOnset(line) ==
    /\ Read(line, "VIDEO_STIM_ONSET")
    /\ OpenSpans(line)
    /\ stim_onset_time' = Some(MsgSeconds(line))
    /\ UNCHANGED <<outcome, trials, trial_time_start, trial_time_end, trial_idx,
                   button_press_time, scene_name, response_time, records, trial>>

\* One pass of `for g in m.groups()` for the group g, where last is
\* mgs[-1]: the three tests of g against the variable names.  st holds the
\* three variables the loop assigns and whether float() or int() raised.
VarAssign(st, g, last) ==
    IF st.raised THEN st
    ELSE IF g = W("rt")
    THEN IF FloatRaises(last)
         THEN [st EXCEPT !.raised = TRUE]
         ELSE [st EXCEPT !.response_time = Some(ToFloat(last))]
    ELSE IF g = W("scene_name")
    THEN [st EXCEPT !.scene_name = Some(last)]
    ELSE IF g = W("trial_index")
    THEN IF IntRaises(last)
         THEN [st EXCEPT !.raised = TRUE]
         ELSE [st EXCEPT !.trial_idx = Some(ToInt(last))]
    ELSE st

\* The whole loop over the three groups (time, variable, value).
VarLoop(line) ==
    LET st0 == [response_time |-> response_time, scene_name |-> scene_name,
                trial_idx |-> trial_idx, raised |-> FALSE]
        st1 == VarAssign(st0, line[2], line[6])
        st2 == VarAssign(st1, line[5], line[6])
    IN  VarAssign(st2, line[6], line[6])

\* "MSG 314108 !V TRIAL_VAR variable value", no conversion raising.
TrialVariable(line) ==
    /\ Read(line, "TRIAL_VAR")
    /\ ~VarLoop(line).raised
    /\ OpenSpans(line)
    /\ response_time' = VarLoop(line).response_time
    /\ scene_name' = VarLoop(line).scene_name
    /\ trial_idx' = VarLoop(line).trial_idx
    /\ UNCHANGED <<outcome, trials, trial_time_start, trial_time_end,
                   button_press_time, stim_onset_time, records, trial>>

\* The same line when float() or int() raises ValueError: the exception
\* leaves parse_eyedata, whose local variables are lost with its frame.
TrialVariableRaises(line) ==
    /\ Read(line, "TRIAL_VAR")
    /\ VarLoop(line).raised
    /\ status' = "raised"
    /\ exception' = Some("ValueError")
    /\ UNCHANGED <<result, trials, trial_time_start, trial_time_end, scalars,
                   records, spans, trial>>

\* EndFixation appending the record only if a fixation is open.
EndFixationIfOpen(line) ==
    /\ Read(line, "EFIX")
    /\ is_fixation_event' = FALSE
    /\ event_flag' = "None"
    /\ is_saccade_event' = OpenedSaccade(line)
    /\ is_blink_event' = OpenedBlink(line)
    /\ fixations' = IF is_fixation_event
                    THEN Append(fixations,
                                Fixation(ToSeconds(ToFloat(line[3])),
                                         ToSeconds(ToFloat(line[4])),
                                         ToFloat(line[6]),
                                         ToFloat(line[7])))
                    ELSE fixations
    /\ UNCHANGED <<outcome, trials, trial_time_start, trial_time_end, scalars,
                   saccades, blinks, gaze, trial>>

\* "EFIX R 314120 314632 513 961.9 553.5 1170"
EndFixation(line) ==
    /\ Read(line, "EFIX")
    /\ is_fixation_event' = FALSE
    /\ event_flag' = "None"
    /\ is_saccade_event' = OpenedSaccade(line)
    /\ is_blink_event' = OpenedBlink(line)
    /\ fixations' = Append(fixations,
                           Fixation(ToSeconds(ToFloat(line[3])),
                                    ToSeconds(ToFloat(line[4])),
                                    ToFloat(line[6]),
                                    ToFloat(line[7])))
    /\ UNCHANGED <<outcome, trials, trial_time_start, trial_time_end, scalars,
                   saccades, blinks, gaze, trial>>

\* "ESACC R 344176 344200 25 973.7 575.1 965.6 440.6 2.29 134"
EndSaccade(line) ==
    /\ Read(line, "ESACC")
    /\ is_saccade_event' = FALSE
    /\ event_flag' = "None"
    /\ is_fixation_event' = OpenedFixation(line)
    /\ is_blink_event' = OpenedBlink(line)
    /\ saccades' = Append(saccades,
                          Saccade(ToSeconds(ToFloat(line[3])),
                                  ToSeconds(ToFloat(line[4])),
                                  ToFloat(line[6]),
                                  ToFloat(line[7]),
                                  ToFloat(line[8]),
                                  ToFloat(line[9]),
                                  ToFloat(line[10]),
                                  ToFloat(line[11])))
    /\ UNCHANGED <<outcome, trials, trial_time_start, trial_time_end, scalars,
                   fixations, blinks, gaze, trial>>

\* "EBLINK R 344176 344200 25"
EndBlink(line) ==
    /\ Read(line, "EBLINK")
    /\ is_blink_event' = FALSE
    /\ event_flag' = "None"
    /\ is_fixation_event' = OpenedFixation(line)
    /\ is_saccade_event' = OpenedSaccade(line)
    /\ blinks' = Append(blinks,
                        Blink(ToSeconds(ToFloat(line[3])),
                              ToSeconds(ToFloat(line[4]))))
    /\ UNCHANGED <<outcome, trials, trial_time_start, trial_time_end, scalars,
                   fixations, saccades, gaze, trial>>

\* "314631 958.8 551.2 1183.0 ..."
GazeSample(line) ==
    /\ Read(line, "GAZE")
    /\ OpenSpans(line)
    /\ gaze' = Append(gaze,
                      Gaze(ToSeconds(ToFloat(line[1])),
                           ToFloat(line[2]),
                           ToFloat(line[3]),
                           OpenedFixation(line),
                           OpenedSaccade(line),
                           OpenedBlink(line),
                           OpenedEvent(line)))
    /\ UNCHANGED <<outcome, trials, trial_time_start, trial_time_end, scalars,
                   fixations, saccades, blinks, trial>>

\* A line no pattern matches: only the startswith tests act on it.
Skip(line) ==
    /\ Read(line, "NONE")
    /\ OpenSpans(line)
    /\ UNCHANGED <<outcome, trials, trial_time_start, trial_time_end, scalars,
                   records, trial>>

\* The file is exhausted: `return trials`.
Return ==
    /\ status = "reading"
    /\ status' = "returned"
    /\ result' = Some(trials)
    /\ UNCHANGED <<f, exception, trials, trial_time_start, trial_time_end,
                   scalars, records, spans, trial, runner, section, partition, link>>

\* One iteration of the loop on a line of the input set, or the end of the
\* file.
Step(by) ==
    \/ \E line \in by["TRIAL_START"] : TrialStart(line)
    \/ \E line \in by["TRIAL_END"] : TrialEnd(line)
    \/ \E line \in by["BUTTON_PRESS"] : ButtonPress(line)
    \/ \E line \in by["VIDEO_STIM_ONSET"] : VideoStimOnset(line)
    \/ \E line \in by["TRIAL_VAR"] : TrialVariable(line)
    \/ \E line \in by["TRIAL_VAR"] : TrialVariableRaises(line)
    \/ \E line \in by["EFIX"] : EndFixation(line)
    \/ \E line \in by["ESACC"] : EndSaccade(line)
    \/ \E line \in by["EBLINK"] : EndBlink(line)
    \/ \E line \in by["GAZE"] : GazeSample(line)
    \/ \E line \in by["NONE"] : Skip(line)
    \/ Return

Next == Step(LinesByShape)
Spec == Init /\ [][Next]_vars

NextSpans == Step(SpanLinesByShape)
SpecSpans == Init /\ [][NextSpans]_vars

NextScenario == Step(ScenarioLinesByShape)
SpecScenario == Init /\ [][NextScenario]_vars

NextVars == Step(VarLinesByShape)
SpecVars == Init /\ [][NextVars]_vars

NextOrder == Step(OrderLinesByShape)
SpecOrder == Init /\ [][NextOrder]_vars

NextFlags == Step(FlagLinesByShape)
SpecFlags == Init /\ [][NextFlags]_vars

NextWriters == Step(WriterLinesByShape)
SpecWriters == Init /\ [][NextWriters]_vars

\* The loop runs on: the interpreter executes the next iteration, or leaves
\* the loop at the end of the file, whenever it can.
NextBranches == Step(BranchLinesByShape)
SpecTerminates == Init /\ [][NextBranches]_vars /\ WF_vars(NextBranches)

\* ------------------------------------------------- vocabulary of the claims
\* The kinds of line the claims speak of, told by the text of the line.
IsTrialStartLine(line) == Len(line) = 3 /\ line[1] = W("MSG") /\ line[3] = W("TRIAL_START")
IsTrialEndLine(line) == Len(line) = 3 /\ line[1] = W("MSG") /\ line[3] = W("TRIAL_END")
IsBoundaryLine(line) == IsTrialStartLine(line) \/ IsTrialEndLine(line)
IsGazeLine(line) == line[1].k = "int" /\ line[Len(line)] = W("...")

\* The timestamp a MSG line carries, in milliseconds.
WireTime(line) == line[2].n

\* A time of n milliseconds, as a number of seconds: n thousandths.
MsAsSeconds(n) == n

Last(seq) == seq[Len(seq)]

\* This step reads one more line, NewLine.
ReadsLine == Len(f') = Len(f) + 1
NewLine == f'[Len(f')]

\* The boundary lines of the input h, in file order, and whether they are
\* N matched pairs: TRIAL_START, TRIAL_END, TRIAL_START, TRIAL_END, ...
Boundaries(h) == SelectSeq(h, IsBoundaryLine)
Matched(h) ==
    LET b == Boundaries(h)
    IN  /\ Len(b) % 2 = 0
        /\ \A i \in 1..Len(b) :
              IF i % 2 = 1 THEN IsTrialStartLine(b[i]) ELSE IsTrialEndLine(b[i])

\* ---------------------------------------------------- VideoTrial.run_trial
\* The calls on self.eyelink: message(msg), start_recording() and
\* stop_recording().
Message(msg) == [call |-> "message", msg |-> msg]
StartRecording == [call |-> "start_recording", msg |-> ""]
StopRecording == [call |-> "stop_recording", msg |-> ""]

\* config.EXIT_KEY, and the keys a participant may have down at a frame.
EXIT_KEY == "escape"
Keyboard == {"f", "j", EXIT_KEY}

\* event.getKeys(keyList): the keys pressed that are in keyList.
GetKeys(pressed, keyList) == pressed \cap keyList

\* The two tests on keys of both loops of play_video: a BUTTON_PRESS
\* message and a return if 'j' or 'f' is in keys, the same if EXIT_KEY is.
Returns(got) == "j" \in got \/ "f" \in got \/ EXIT_KEY \in got

\* run_trial up to the first test of the playing loop: the TRIAL_START
\* message, start_recording(), and the onset message of play_video.
RunTrial ==
    /\ pc = "idle"
    /\ id < MaxRuns
    /\ eyelink' = eyelink \o <<Message("TRIAL_START"), StartRecording,
                                Message("VIDEO_STIM_ONSET")>>
    /\ frame_count' = 0
    /\ pc' = "playing"
    /\ UNCHANGED <<keys, id, parser, section, partition, link>>

\* PlayFrame sending no message when a key ends the loop.
PlayFrameSilently(pressed) ==
    /\ pc = "playing"
    /\ frame_count < MaxFrames
    /\ keys' = GetKeys(pressed, {"f", "j"})
    /\ IF Returns(keys')
       THEN /\ eyelink' = Append(eyelink, Message("!V VRAME"))
            /\ pc' = "returned"
            /\ UNCHANGED frame_count
       ELSE /\ eyelink' = Append(eyelink, Message("!V VRAME"))
            /\ frame_count' = frame_count + 1
            /\ UNCHANGED pc
    /\ UNCHANGED <<id, parser, section, partition, link>>

\* One iteration of `while self.video.status != visual.FINISHED`: the frame
\* message, the frame, and the two tests on the keys.
PlayFrame(pressed) ==
    /\ pc = "playing"
    /\ frame_count < MaxFrames
    /\ keys' = GetKeys(pressed, {"f", "j"})
    /\ IF Returns(keys')
       THEN /\ eyelink' = eyelink \o <<Message("!V VRAME"), Message("BUTTON_PRESS")>>
            /\ pc' = "returned"
            /\ UNCHANGED frame_count
       ELSE /\ eyelink' = Append(eyelink, Message("!V VRAME"))
            /\ frame_count' = frame_count + 1
            /\ UNCHANGED pc
    /\ UNCHANGED <<id, parser, section, partition, link>>

\* The video reports FINISHED at the test of the first loop.
VideoFinished ==
    /\ pc = "playing"
    /\ pc' = "last_frame"
    /\ UNCHANGED <<eyelink, frame_count, keys, id, parser, section, partition, link>>

\* One iteration of the `while True` loop that shows the last frame.
LastFrame(pressed) ==
    /\ pc = "last_frame"
    /\ keys' = GetKeys(pressed, {"f", "j"})
    /\ IF Returns(keys')
       THEN /\ eyelink' = Append(eyelink, Message("BUTTON_PRESS"))
            /\ pc' = "returned"
       ELSE UNCHANGED <<eyelink, pc>>
    /\ UNCHANGED <<frame_count, id, parser, section, partition, link>>

\* play_video has returned: stop_video_and_tracking and the TRIAL_END
\* message of run_trial.
StopVideoAndTracking ==
    /\ pc = "returned"
    /\ eyelink' = eyelink \o <<StopRecording,
                                Message("!V TRIAL_VAR trial_index"),
                                Message("!V TRIAL_VAR scene_name"),
                                Message("!V TRIAL_VAR rt"),
                                Message("TRIAL_END")>>
    /\ pc' = "idle"
    /\ id' = id + 1
    /\ UNCHANGED <<frame_count, keys, parser, section, partition, link>>

NextRunTrial ==
    \/ RunTrial
    \/ \E pressed \in SUBSET Keyboard : PlayFrame(pressed)
    \/ VideoFinished
    \/ \E pressed \in SUBSET Keyboard : LastFrame(pressed)
    \/ StopVideoAndTracking

SpecRunTrial == Init /\ [][NextRunTrial]_vars

\* ------------------------------------------- construct_experiment_section
\* Video paths: the text of a path cut at each "_intra".
VideoPaths == {<<"data/a", "_intra", ".mp4">>, <<"data/b", "_intra", ".mp4">>,
               <<"data/c.mp4">>}
RECURSIVE ListsOf(_, _)
ListsOf(S, n) ==
    IF n = 0 THEN {<<>>}
    ELSE ListsOf(S, n - 1)
         \cup {Append(l, x) : l \in {m \in ListsOf(S, n - 1) : Len(m) = n - 1}, x \in S}

\* v_path.replace('_intra', new): every occurrence is replaced.
Replace(v_path, new) ==
    [j \in 1..Len(v_path) |-> IF v_path[j] = "_intra" THEN new ELSE v_path[j]]

\* The calls that make the entries, with the arguments the section passes.
\* The classes are those of the trial module main.py is written against.
ImageTrial(image_path, timed) ==
    [class |-> "ImageTrial", image_path |-> image_path, timed |-> timed]
FixationTrial == [class |-> "FixationTrial"]
SectionVideoTrial(v_path, end_keys) ==
    [class |-> "VideoTrial", video_path |-> v_path, end_keys |-> end_keys]
ExperimentBlock(videos, idx) ==
    [class |-> "ExperimentBlock", videos |-> videos, id |-> idx]

\* config.YELLOW_BUTTON, config.BLUE_BUTTON, config.RED_BUTTON
YELLOW_BUTTON == "space"
BLUE_BUTTON == "j"
RED_BUTTON == "f"

\* The three video trials of the block of one path.
VideoStimuli(v_path) ==
    << SectionVideoTrial(Replace(v_path, "_pre"), Some(<<YELLOW_BUTTON>>)),
       SectionVideoTrial(v_path, None),
       SectionVideoTrial(Replace(v_path, "_post"),
                         Some(<<BLUE_BUTTON, RED_BUTTON>>)) >>

\* ClosingImage showing the reminder after the last block too.
ClosingImageNeverLast(idx, paths, button) ==
    ImageTrial(<<"data/introduction/experiment_recorded_r", button, ".png">>,
               Some(FALSE))

\* The image trial after block idx: `if idx != len(video_paths)-1`.
ClosingImage(idx, paths, button) ==
    IF idx # Len(paths) - 1
    THEN ImageTrial(<<"data/introduction/experiment_recorded_r", button, ".png">>,
                    Some(FALSE))
    ELSE ImageTrial(<<"data/introduction/experiment_recorded.png">>, Some(TRUE))

\* experiment_trials after the iterations idx = 0 .. n-1 of the loop.
RECURSIVE SectionAfter(_, _, _)
SectionAfter(n, paths, button) ==
    IF n = 0
    THEN << ImageTrial(<<"data/introduction/experiment_instruction_r", button,
                         ".png">>, None) >>
    ELSE SectionAfter(n - 1, paths, button)
         \o << FixationTrial,
               ExperimentBlock(VideoStimuli(paths[n]), n - 1),
               ClosingImage(n - 1, paths, button) >>

construct_experiment_section(paths, button) ==
    SectionAfter(Len(paths), paths, button)

\* The arguments of a call: any list of at most MaxVideos paths, and the
\* key of the red button.
InitExperiment ==
    /\ InitParser
    /\ InitRunner
    /\ InitPartition
    /\ InitLink
    /\ video_paths \in ListsOf(VideoPaths, MaxVideos)
    /\ red_button \in {"f", "j"}
    /\ experiment_trials = None

ConstructExperimentSection ==
    /\ experiment_trials = None
    /\ experiment_trials' = Some(construct_experiment_section(video_paths, red_button))
    /\ UNCHANGED <<video_paths, red_button, parser, runner, partition, link>>

NextExperiment == ConstructExperimentSection
SpecExperiment == InitExperiment /\ [][NextExperiment]_vars

\* ----------------------------------------------------------- partition_list
\* The stimuli a list may hold; a list may hold one twice.
Stimuli == {"a_intra.mp4", "b_intra.mp4"}

\* items[start:end] and items[start:] for indices that are not negative:
\* the items at the 0-based positions start .. end-1 that exist.
Slice(seq, start, end) == SubSeq(seq, start + 1, IF end < Len(seq) THEN end ELSE Len(seq))
SliceFrom(seq, start) == SubSeq(seq, start + 1, Len(seq))

\* BaseSize rounding up.
BaseSizeRoundedUp(n, k) == (n + k - 1) \div k

\* base_size = n // num_groups, for num_groups > 0.
BaseSize(n, k) == n \div k

\* LastGroup cut like the groups before it.
LastGroupOfBaseSize(seq, k, base_size) ==
    Slice(seq, (k - 1) * base_size, k * base_size)

\* The last group: items[(num_groups-1) * base_size:].
LastGroup(seq, k, base_size) == SliceFrom(seq, (k - 1) * base_size)

\* groups after the iterations i = 0 .. count-1 of the loop.
RECURSIVE GroupsAfter(_, _, _)
GroupsAfter(count, seq, base_size) ==
    IF count = 0 THEN <<>>
    ELSE Append(GroupsAfter(count - 1, seq, base_size),
                Slice(seq, (count - 1) * base_size, count * base_size))

partition_list(seq, k) ==
    LET n == Len(seq)
        base_size == BaseSize(n, k)
    IN  Append(GroupsAfter(k - 1, seq, base_size), LastGroup(seq, k, base_size))

\* What `n // num_groups` raises for num_groups = 0.
ZeroDivisionError == <<"ZeroDivisionError", "integer division or modulo by zero">>

\* The arguments of a call: any list of at most MaxItems stimuli, and a
\* number of groups from 0 to MaxGroups.
InitPartitionList ==
    /\ InitParser
    /\ InitRunner
    /\ InitSection
    /\ InitLink
    /\ items \in ListsOf(Stimuli, MaxItems)
    /\ num_groups \in 0..MaxGroups
    /\ groups = None

PartitionList ==
    /\ groups = None
    /\ groups' = IF num_groups = 0 THEN ZeroDivisionError
                 ELSE Some(partition_list(items, num_groups))
    /\ UNCHANGED <<items, num_groups, parser, runner, section, link>>

NextPartition == PartitionList
SpecPartition == InitPartitionList /\ [][NextPartition]_vars

\* ------------------------------- EyeLink.drift_check and fake_drift_check
\* event.waitKeys(keyList): a list of one key or more of keyList.
WaitKeys(keyList) == (SUBSET keyList) \ {{}}

\* The keys of the target of the fake check and of the experimenter's prompt.
TargetKeys == {"space", "escape"}
PromptKeys == {"space", "c", "a", "r", "d"}

\* A call that has not returned, and where it stands: a drift_check at its
\* "entry", at the "prompt", "delegated" to fake_drift_check or "recursed"
\* into drift_check; a fake_drift_check at the "target", at the "prompt" or
\* "recursed".
Frame(fn, at) == [fn |-> fn, pc |-> at]

\* The events of a session: a call of one of the two methods (depth 1 for
\* a call from outside), self.tracker.doDriftCorrect, a return with its
\* value (None for a call that ends without a return statement).
Call(fn, depth) == [ev |-> "call", fn |-> fn, depth |-> depth, value |-> None]
DoDriftCorrect(depth) ==
    [ev |-> "doDriftCorrect", fn |-> "drift_check", depth |-> depth, value |-> None]
ReturnOf(fn, depth, value) == [ev |-> "return", fn |-> fn, depth |-> depth, value |-> value]

\* The calls made from outside so far.
OuterCalls(h) == Len(SelectSeq(h, LAMBDA e : e.ev = "call" /\ e.depth = 1))

\* The returns that follow when the innermost call returns value: its
\* caller stands in `return self.fake_drift_check(pos)` and returns the same
\* value, or stands after `self.drift_check(pos)` and returns 'ok'.
RECURSIVE Unwind(_, _)
Unwind(stk, value) ==
    IF stk = <<>> THEN <<>>
    ELSE LET callers == SubSeq(stk, 1, Len(stk) - 1)
         IN  <<ReturnOf(stk[Len(stk)].fn, Len(stk), value)>>
             \o (IF callers = <<>> THEN <<>>
                 ELSE Unwind(callers,
                             IF callers[Len(callers)].pc = "delegated"
                             THEN value ELSE Some("ok")))

\* The innermost call moves to `at`.
Moved(stk, at) == [stk EXCEPT ![Len(stk)].pc = at]

\* The innermost call returns value.
ReturnValue(value) ==
    /\ stack' = <<>>
    /\ history' = history \o Unwind(stack, value)

\* `self.drift_check(pos)` from the innermost call.
Recurse ==
    /\ Len(stack) < MaxDepth
    /\ stack' = Append(Moved(stack, "recursed"), Frame("drift_check", "entry"))
    /\ history' = Append(history, Call("drift_check", Len(stack) + 1))

\* The four tests on the keys of the prompt, the same in both methods.
Prompt(got) ==
    IF "a" \in got
    THEN ReturnValue(Some("abort")) /\ UNCHANGED disable_drift_checks
    ELSE IF "r" \in got
    THEN ReturnValue(Some("recalibrate")) /\ UNCHANGED disable_drift_checks
    ELSE IF "d" \in got
    THEN disable_drift_checks' = TRUE /\ ReturnValue(Some("disable"))
    ELSE Recurse /\ UNCHANGED disable_drift_checks

\* A drift check asked for from outside.
CallDriftCheck ==
    /\ stack = <<>>
    /\ OuterCalls(history) < MaxCalls
    /\ stack' = <<Frame("drift_check", "entry")>>
    /\ history' = Append(history, Call("drift_check", 1))
    /\ UNCHANGED <<disable_drift_checks, parser, runner, section, partition>>

\* A fake drift check asked for from outside, up to its first waitKeys.
CallFakeDriftCheck ==
    /\ stack = <<>>
    /\ OuterCalls(history) < MaxCalls
    /\ stack' = <<Frame("fake_drift_check", "target")>>
    /\ history' = Append(history, Call("fake_drift_check", 1))
    /\ UNCHANGED <<disable_drift_checks, parser, runner, section, partition>>

\* DriftCheck that tries the tracker whatever disable_drift_checks is.
DriftCheckAlwaysCorrects(raises) ==
    /\ stack # <<>>
    /\ stack[Len(stack)] = Frame("drift_check", "entry")
    /\ IF raises
       THEN /\ stack' = Moved(stack, "prompt")
            /\ history' = Append(history, DoDriftCorrect(Len(stack)))
       ELSE /\ stack' = <<>>
            /\ history' = Append(history, DoDriftCorrect(Len(stack)))
                          \o Unwind(stack, None)
    /\ UNCHANGED <<disable_drift_checks, parser, runner, section, partition>>

\* drift_check from its first line to the prompt: the delegation if drift
\* checks are disabled; else doDriftCorrect, which raises RuntimeError or
\* does not, and then the end of the function is reached.
DriftCheck(raises) ==
    /\ stack # <<>>
    /\ stack[Len(stack)] = Frame("drift_check", "entry")
    /\ IF disable_drift_checks
       THEN /\ stack' = Append(Moved(stack, "delegated"),
                               Frame("fake_drift_check", "target"))
            /\ history' = Append(history, Call("fake_drift_check", Len(stack) + 1))
       ELSE IF raises
       THEN /\ stack' = Moved(stack, "prompt")
            /\ history' = Append(history, DoDriftCorrect(Len(stack)))
       ELSE /\ stack' = <<>>
            /\ history' = Append(history, DoDriftCorrect(Len(stack)))
                          \o Unwind(stack, None)
    /\ UNCHANGED <<disable_drift_checks, parser, runner, section, partition>>

\* The except branch of drift_check from waitKeys on.
DriftCheckPrompt(got) ==
    /\ stack # <<>>
    /\ stack[Len(stack)] = Frame("drift_check", "prompt")
    /\ Prompt(got)
    /\ UNCHANGED <<parser, runner, section, partition>>

\* fake_drift_check at the target: 'space' returns 'ok', else the prompt.
FakeDriftCheck(got) ==
    /\ stack # <<>>
    /\ stack[Len(stack)] = Frame("fake_drift_check", "target")
    /\ IF "space" \in got
       THEN ReturnValue(Some("ok"))
       ELSE /\ stack' = Moved(stack, "prompt")
            /\ UNCHANGED history
    /\ UNCHANGED <<disable_drift_checks, parser, runner, section, partition>>

\* fake_drift_check from the waitKeys of its prompt on.
FakeDriftCheckPrompt(got) ==
    /\ stack # <<>>
    /\ stack[Len(stack)] = Frame("fake_drift_check", "prompt")
    /\ Prompt(got)
    /\ UNCHANGED <<parser, runner, section, partition>>

NextDriftCheck ==
    \/ CallDriftCheck
    \/ CallFakeDriftCheck
    \/ \E raises \in BOOLEAN : DriftCheck(raises)
    \/ \E got \in WaitKeys(PromptKeys) : DriftCheckPrompt(got)
    \/ \E got \in WaitKeys(TargetKeys) : FakeDriftCheck(got)
    \/ \E got \in WaitKeys(PromptKeys) : FakeDriftCheckPrompt(got)

SpecDriftCheck == Init /\ [][NextDriftCheck]_vars

\* ------------------------------------------------------------------ claims
\* C1: for a well-formed input with N matched TRIAL_START/TRIAL_END pairs
\* that parses without error, parse_eyedata returns exactly N trials, and
\* the i-th one has the start time of the i-th TRIAL_START and the end time
\* of the i-th TRIAL_END.
C1_MatchedPairsGiveTrialsInOrder ==
    (status = "returned" /\ Matched(f)) =>
        LET b == Boundaries(f)
            out == result[1]
        IN  /\ Len(out) * 2 = Len(b)
            /\ \A i \in 1..Len(out) :
                  /\ out[i].start_time = MsAsSeconds(WireTime(b[2 * i - 1]))
                  /\ out[i].end_time = MsAsSeconds(WireTime(b[2 * i]))

\* Two trials with different start times and different end times returned
\* from a matched input.
C1_Witness ==
    /\ status = "returned"
    /\ Matched(f)
    /\ Len(result[1]) = 2
    /\ result[1][1].start_time # result[1][2].start_time
    /\ result[1][1].end_time # result[1][2].end_time

\* C2: a TRIAL_START read while a trial is open makes parsing fail with
\* StrayTrialStart.
C2_StrayTrialStartRaises ==
    [][(status = "reading" /\ trial # None /\ ReadsLine /\ IsTrialStartLine(NewLine))
          => (status' = "raised" /\ exception' = Some("StrayTrialStart"))]_vars

\* C3: a TRIAL_END read while no trial is open makes parsing fail with
\* UnmatchedTrialEnd.
C3_UnmatchedTrialEndRaises ==
    [][(status = "reading" /\ trial = None /\ ReadsLine /\ IsTrialEndLine(NewLine))
          => (status' = "raised" /\ exception' = Some("UnmatchedTrialEnd"))]_vars

\* C4: when the input ends while a trial is open, parsing raises
\* IncompleteTrialError: it does not return normally.
C4_EndOfInputInTrialRaises ==
    [][(status = "reading" /\ trial # None /\ status' # "reading" /\ f' = f)
          => (status' = "raised" /\ exception' = Some("IncompleteTrialError"))]_vars

\* C5: a line that starts like an EFIX line but has a field that is no
\* number makes parsing abort with FormatError: it is not skipped.
C5_MalformedFieldRaises ==
    [][(status = "reading" /\ ReadsLine /\ NewLine[1] = W("EFIX")
          /\ \E i \in 3..Len(NewLine) : NewLine[i].k = "word")
          => (status' = "raised" /\ exception' = Some("FormatError"))]_vars

\* C6: immediately after a TRIAL_START read while no trial is open, the
\* record lists are empty and the optional scalar fields are unset,
\* whatever lines were read before.
C6_TrialStartsEmpty ==
    [][(status = "reading" /\ trial = None /\ ReadsLine /\ IsTrialStartLine(NewLine))
          => /\ gaze' = <<>> /\ fixations' = <<>>
             /\ saccades' = <<>> /\ blinks' = <<>>
             /\ trial_idx' = None /\ response_time' = None
             /\ scene_name' = None /\ button_press_time' = None
             /\ stim_onset_time' = None]_vars

\* The span markers, by type.
IsSFIX(line) == line[1] = W("SFIX")
IsEFIX(line) == line[1] = W("EFIX")
IsSSACC(line) == line[1] \in {W("SSAC"), W("SSACC")}
IsESACC(line) == line[1] = W("ESACC")
IsSBLINK(line) == line[1] = W("SBLINK")
IsEBLINK(line) == line[1] = W("EBLINK")

\* The position in h of the TRIAL_START that opened the trial open after
\* h: the first TRIAL_START after the last TRIAL_END.
LastTrialEnd(h) ==
    LET ends == {i \in 1..Len(h) : IsTrialEndLine(h[i])}
    IN  IF ends = {} THEN 0 ELSE CHOOSE i \in ends : \A j \in ends : j <= i
TrialOpenedAt(h) ==
    CHOOSE i \in (LastTrialEnd(h) + 1)..Len(h) :
        /\ IsTrialStartLine(h[i])
        /\ \A j \in (LastTrialEnd(h) + 1)..(i - 1) : ~IsTrialStartLine(h[j])

\* After h, the open trial holds an open marker that no close marker of
\* its type follows.
SpanOpenInTrial(h, IsOpen(_), IsClose(_)) ==
    \E q \in (TrialOpenedAt(h) + 1)..Len(h) :
        /\ IsOpen(h[q])
        /\ \A r \in (q + 1)..Len(h) : ~IsClose(h[r])

\* C7: the in_fixation flag of a gaze sample read in a trial is true if and
\* only if an SFIX of that trial is not yet closed by an EFIX when the
\* sample line is read; likewise in_saccade and in_blink.
C7_FlagsFollowMarkersOfTheTrial ==
    [][(status = "reading" /\ trial # None /\ ReadsLine /\ IsGazeLine(NewLine))
          => /\ Last(gaze').fixation = SpanOpenInTrial(f, IsSFIX, IsEFIX)
             /\ Last(gaze').saccade = SpanOpenInTrial(f, IsSSACC, IsESACC)
             /\ Last(gaze').blink = SpanOpenInTrial(f, IsSBLINK, IsEBLINK)]_vars

\* The millisecond timestamps a line carries.
Stamps(line) ==
    IF line[1] = W("MSG") THEN {line[2].n}
    ELSE IF line[1].k = "int" THEN {line[1].n}
    ELSE IF IsEFIX(line) \/ IsESACC(line) \/ IsEBLINK(line)
    THEN {line[i].n : i \in {j \in {3, 4} : line[j].k = "int"}}
    ELSE IF IsSFIX(line) \/ IsSSACC(line) \/ IsSBLINK(line) THEN {line[3].n}
    ELSE {}

\* The timestamps of the input never go back from one line to a later one.
TimeOrdered(h) ==
    \A i, j \in 1..Len(h) :
        i < j => \A a \in Stamps(h[i]) : \A b \in Stamps(h[j]) : a <= b

Within(x, t) == t.start_time <= x /\ x <= t.end_time

RecordsWithin(t) ==
    /\ \A k \in 1..Len(t.gaze) : Within(t.gaze[k].time, t)
    /\ \A k \in 1..Len(t.fixations) :
          Within(t.fixations[k].start, t) /\ Within(t.fixations[k].stop, t)
    /\ \A k \in 1..Len(t.saccades) :
          Within(t.saccades[k].start, t) /\ Within(t.saccades[k].stop, t)
    /\ \A k \in 1..Len(t.blinks) :
          Within(t.blinks[k].start, t) /\ Within(t.blinks[k].stop, t)

\* C8: in every sealed trial, every record's timestamp is >= the trial's
\* start_time and <= its end_time.  Stated for the inputs on which the
\* producer keeps its side: timestamps in file order.
C8_RecordsWithinTrial ==
    TimeOrdered(f) => \A i \in 1..Len(trials) : RecordsWithin(trials[i])

\* C9: a TRIAL_END(t) read while a trial is open appends the trial with
\* end_time = t/1000 to the output and leaves the parser as it was
\* initially: no open trial, empty lists, scalars unset, span flags false,
\* event label 'None'.
C9_TrialEndSealsAndResets ==
    [][(status = "reading" /\ trial # None /\ ReadsLine /\ IsTrialEndLine(NewLine))
          => /\ Len(trials') = Len(trials) + 1
             /\ SubSeq(trials', 1, Len(trials)) = trials
             /\ Last(trials').end_time = MsAsSeconds(WireTime(NewLine))
             /\ Last(trials').start_time = trial[1].start_time
             /\ trial' = None
             /\ trial_time_start' = None /\ trial_time_end' = None
             /\ gaze' = <<>> /\ fixations' = <<>>
             /\ saccades' = <<>> /\ blinks' = <<>>
             /\ trial_idx' = None /\ response_time' = None
             /\ scene_name' = None /\ button_press_time' = None
             /\ stim_onset_time' = None
             /\ ~is_fixation_event' /\ ~is_saccade_event' /\ ~is_blink_event'
             /\ event_flag' = "None"]_vars

\* A trial sealed with a fixation and a blink left open in it.
C9_Witness ==
    /\ status = "reading"
    /\ Len(f) = 4
    /\ IsTrialStartLine(f[1])
    /\ f[2] = SFIXLine
    /\ f[3] = SBLINKLine
    /\ IsTrialEndLine(f[4])
    /\ Len(trials) = 1
    /\ trial = None

\* The number a TRIAL_VAR value holds as written, in thousandths.
AsWritten(tok) == IF tok.k = "dec" THEN tok.n ELSE tok.n * 1000

IsMsgLine(line, keyword) ==
    Len(line) = 3 /\ line[1] = W("MSG") /\ line[3] = W(keyword)
IsRtLine(line) ==
    /\ Len(line) = 6 /\ line[4] = W("TRIAL_VAR") /\ line[5] = W("rt")
    /\ line[6].k \in {"int", "dec"}
IsCloseLine(line, keyword) == line[1] = W(keyword) /\ line[3].k = "int"

\* C10: every millisecond field is stored as its wire value divided by
\* 1000, and the value of a TRIAL_VAR rt line is stored as response_time
\* unchanged.
C10_MillisecondsToSeconds ==
    [][(status = "reading" /\ ReadsLine) =>
          /\ (IsTrialStartLine(NewLine) /\ trial = None)
                => trial'[1].start_time = MsAsSeconds(WireTime(NewLine))
          /\ (IsTrialEndLine(NewLine) /\ trial # None)
                => /\ Last(trials').end_time = MsAsSeconds(WireTime(NewLine))
                   /\ Last(trials').start_time = trial[1].start_time
                   /\ Last(trials').button_press_time = button_press_time
                   /\ Last(trials').stimulus_onset_time = stim_onset_time
                   /\ Last(trials').response_time = response_time
                   /\ Last(trials').gaze = gaze
                   /\ Last(trials').fixations = fixations
                   /\ Last(trials').saccades = saccades
                   /\ Last(trials').blinks = blinks
          /\ IsMsgLine(NewLine, "BUTTON_PRESS")
                => button_press_time' = Some(MsAsSeconds(WireTime(NewLine)))
          /\ IsMsgLine(NewLine, "VIDEO_STIM_ONSET")
                => stim_onset_time' = Some(MsAsSeconds(WireTime(NewLine)))
          /\ IsCloseLine(NewLine, "EFIX")
                => /\ Last(fixations').start = MsAsSeconds(NewLine[3].n)
                   /\ Last(fixations').stop = MsAsSeconds(NewLine[4].n)
          /\ IsCloseLine(NewLine, "ESACC")
                => /\ Last(saccades').start = MsAsSeconds(NewLine[3].n)
                   /\ Last(saccades').stop = MsAsSeconds(NewLine[4].n)
          /\ IsCloseLine(NewLine, "EBLINK")
                => /\ Last(blinks').start = MsAsSeconds(NewLine[3].n)
                   /\ Last(blinks').stop = MsAsSeconds(NewLine[4].n)
          /\ IsGazeLine(NewLine)
                => Last(gaze').time = MsAsSeconds(NewLine[1].n)
          /\ IsRtLine(NewLine)
                => response_time' = Some(AsWritten(NewLine[6]))]_vars

\* A sealed trial holding a button press read at 1 ms, a response time
\* written as 0.450 and a fixation from 1 ms to 2 ms.
C10_Witness ==
    \E i \in 1..Len(trials) :
        /\ trials[i].button_press_time = Some(1)
        /\ trials[i].response_time = Some(450)
        /\ trials[i].end_time = 2

\* C11: parsing the six-line trace ScenarioA yields exactly one trial, with
\* start_time 1.0, end_time 1.6, stimulus_onset_time 1.05,
\* fixations = [Fixation(1.06, 1.2, 605.0, 405.0)] and response_time 0.45.
C11_ScenarioA ==
    (status # "reading" /\ f = ScenarioA) =>
        /\ status = "returned"
        /\ Len(result[1]) = 1
        /\ result[1][1].start_time = 1000
        /\ result[1][1].end_time = 1600
        /\ result[1][1].stimulus_onset_time = <<1050>>
        /\ result[1][1].fixations =
              << [start |-> 1060, stop |-> 1200, x |-> 605000, y |-> 405000] >>
        /\ result[1][1].response_time = <<450>>

\* The parse of ScenarioA has ended.
C11_Witness == status = "returned" /\ f = ScenarioA

\* The variables parse_eyedata knows.
KnownKeys == {W("rt"), W("scene_name"), W("trial_index")}
IsTrialVarLine(line) ==
    /\ Len(line) = 6 /\ line[1] = W("MSG") /\ line[2].k = "int"
    /\ line[3] = W("!V") /\ line[4] = W("TRIAL_VAR") /\ line[5].k = "word"

\* C12: a TRIAL_VAR line whose key is none of rt, scene_name, trial_index
\* raises no error and changes no field of the current trial, whatever its
\* value is, the words 'rt', 'scene_name' and 'trial_index' included.
C12_UnknownKeyIsIgnored ==
    [][(status = "reading" /\ trial # None /\ ReadsLine
        /\ IsTrialVarLine(NewLine) /\ NewLine[5] \notin KnownKeys)
          => /\ status' = "reading"
             /\ UNCHANGED <<scalars, records, trial, trial_time_start,
                            trial_time_end, trials>>]_vars

\* The shapes the parser recognizes, as the input format writes them: a
\* line of none of them, that begins with no open marker either.
IsOpenMarkerLine(line) == line[1] \in {W("SFIX"), W("SSAC"), W("SSACC"), W("SBLINK")}
IsMessageLine(line) == line[1] = W("MSG")
IsCloseMarkerLine(line) == line[1] \in {W("EFIX"), W("ESACC"), W("EBLINK")}
IsUnrecognizedLine(line) ==
    /\ ~IsMessageLine(line)
    /\ ~IsOpenMarkerLine(line)
    /\ ~IsCloseMarkerLine(line)
    /\ ~IsGazeLine(line)

\* C13: a line that matches none of the recognized shapes is skipped
\* without error and leaves the whole parser state unchanged: open trial,
\* record lists, scalar fields, span flags, event label and output sequence.
C13_UnrecognizedLineIsSkipped ==
    [][(status = "reading" /\ ReadsLine /\ IsUnrecognizedLine(NewLine))
          => /\ status' = "reading"
             /\ UNCHANGED <<trial, trial_time_start, trial_time_end, records,
                            scalars, spans, trials>>]_vars

\* A log line and a sample line without its "..." marker were skipped in
\* an open trial with an open fixation.
C13_Witness ==
    /\ status = "reading"
    /\ trial # None
    /\ is_fixation_event
    /\ \E i \in 1..Len(f) : f[i] = NoiseLine
    /\ \E i \in 1..Len(f) : f[i] = BareSampleLine

\* C14: the event label stored in a gaze sample names a span type that is
\* open when the sample line is read, and is 'None' only when no span is
\* open, also when one of two overlapping spans has closed and the other
\* is still open.
C14_EventLabelNamesAnOpenSpan ==
    [][(status = "reading" /\ ReadsLine /\ IsGazeLine(NewLine))
          => /\ Last(gaze').event = "fixation" => is_fixation_event
             /\ Last(gaze').event = "saccade" => is_saccade_event
             /\ Last(gaze').event = "blink" => is_blink_event
             /\ Last(gaze').event = "None"
                   => ~(is_fixation_event \/ is_saccade_event \/ is_blink_event)
             /\ Last(gaze').event \in {"fixation", "saccade", "blink", "None"}]_vars

\* C15: the three span flags are independent: an open or close marker of
\* one span type never changes the flag of another type, and a sample
\* carries the three flags as they are, so that overlapping spans are all
\* reported true on a sample read inside the overlap.
C15_SpanFlagsAreIndependent ==
    [][(status = "reading" /\ ReadsLine) =>
          /\ (IsSFIX(NewLine) \/ IsEFIX(NewLine))
                => UNCHANGED <<is_saccade_event, is_blink_event>>
          /\ (IsSSACC(NewLine) \/ IsESACC(NewLine))
                => UNCHANGED <<is_fixation_event, is_blink_event>>
          /\ (IsSBLINK(NewLine) \/ IsEBLINK(NewLine))
                => UNCHANGED <<is_fixation_event, is_saccade_event>>
          /\ IsGazeLine(NewLine)
                => /\ Last(gaze').fixation = is_fixation_event
                   /\ Last(gaze').saccade = is_saccade_event
                   /\ Last(gaze').blink = is_blink_event]_vars

\* A sample read inside a blink inside a fixation carries both flags.
C15_Witness ==
    /\ Len(f) = 3
    /\ IsSFIX(f[1]) /\ IsSBLINK(f[2]) /\ IsGazeLine(f[3])
    /\ Len(gaze) = 1
    /\ gaze[1].fixation /\ gaze[1].blink /\ ~gaze[1].saccade

\* The list grows by exactly one record at its end.
GrowsByOne(before, after) ==
    Len(after) = Len(before) + 1 /\ SubSeq(after, 1, Len(before)) = before

\* C16: an open marker (SFIX, SSAC, SBLINK) sets its span flag to true and
\* appends no record; a close marker (EFIX, ESACC, EBLINK) sets its span
\* flag to false and appends exactly one record of its type to the
\* accumulator; no other line adds a fixation, saccade or blink record.
C16_MarkersSetFlagsAndCloseAppends ==
    [][(status = "reading" /\ ReadsLine) =>
          /\ IsSFIX(NewLine) => is_fixation_event' /\ UNCHANGED records
          /\ IsSSACC(NewLine) => is_saccade_event' /\ UNCHANGED records
          /\ IsSBLINK(NewLine) => is_blink_event' /\ UNCHANGED records
          /\ IsEFIX(NewLine)
                => /\ ~is_fixation_event'
                   /\ GrowsByOne(fixations, fixations')
                   /\ UNCHANGED <<saccades, blinks, gaze>>
          /\ IsESACC(NewLine)
                => /\ ~is_saccade_event'
                   /\ GrowsByOne(saccades, saccades')
                   /\ UNCHANGED <<fixations, blinks, gaze>>
          /\ IsEBLINK(NewLine)
                => /\ ~is_blink_event'
                   /\ GrowsByOne(blinks, blinks')
                   /\ UNCHANGED <<fixations, saccades, gaze>>
          /\ ~IsEFIX(NewLine) => Len(fixations') <= Len(fixations)
          /\ ~IsESACC(NewLine) => Len(saccades') <= Len(saccades)
          /\ ~IsEBLINK(NewLine) => Len(blinks') <= Len(blinks)]_vars

\* A blink opened and closed: the flag is down again and the accumulator
\* holds the one blink.
C16_Witness ==
    /\ Len(f) = 2
    /\ IsSBLINK(f[1]) /\ IsEBLINK(f[2])
    /\ ~is_blink_event
    /\ Len(blinks) = 1
    /\ fixations = <<>> /\ saccades = <<>>

\* The scalar fields other than the one named.
OtherScalars(name) ==
    [n \in {"index", "button_press_time", "stimulus_onset_time", "scene_name",
            "response_time"} \ {name} |->
        CASE n = "index" -> trial_idx
          [] n = "button_press_time" -> button_press_time
          [] n = "stimulus_onset_time" -> stim_onset_time
          [] n = "scene_name" -> scene_name
          [] n = "response_time" -> response_time]

IsKeyLine(line, key) == IsTrialVarLine(line) /\ line[5] = W(key)

\* C18: within an open trial, BUTTON_PRESS(t) sets only button_press_time,
\* VIDEO_STIM_ONSET(t) sets only stimulus_onset_time, and TRIAL_VAR with key
\* rt / scene_name / trial_index sets only response_time / scene_name /
\* index; each leaves the record lists, the span flags and every other
\* scalar field unchanged.
C18_ScalarLinesSetOnlyTheirField ==
    [][(status = "reading" /\ trial # None /\ ReadsLine) =>
          LET Only(name) ==
                  /\ status' = "reading"
                  /\ OtherScalars(name)' = OtherScalars(name)
                  /\ UNCHANGED <<records, spans, trial, trials>>
          IN  /\ IsMsgLine(NewLine, "BUTTON_PRESS")
                    => /\ Only("button_press_time")
                       /\ button_press_time' = Some(MsAsSeconds(WireTime(NewLine)))
              /\ IsMsgLine(NewLine, "VIDEO_STIM_ONSET")
                    => /\ Only("stimulus_onset_time")
                       /\ stim_onset_time' = Some(MsAsSeconds(WireTime(NewLine)))
              /\ IsKeyLine(NewLine, "rt")
                    => /\ Only("response_time")
                       /\ response_time' = Some(AsWritten(NewLine[6]))
              /\ IsKeyLine(NewLine, "scene_name")
                    => /\ Only("scene_name")
                       /\ scene_name' = Some(NewLine[6])
              /\ IsKeyLine(NewLine, "trial_index")
                    => /\ Only("index")
                       /\ trial_idx' = Some(NewLine[6].n)]_vars

\* The number of lines of h that produce a record of one type, and the
\* number of records of that type held by the sealed trials and by the
\* accumulator.
Produced(h, IsProducer(_)) == Cardinality({i \in 1..Len(h) : IsProducer(h[i])})
Held(List(_), accumulator) ==
    Cardinality({p \in (1..Len(trials)) \X (1..Len(f)) :
                    p[2] <= Len(List(trials[p[1]]))})
    + Len(accumulator)
GazeOf(t) == t.gaze
FixationsOf(t) == t.fixations
SaccadesOf(t) == t.saccades
BlinksOf(t) == t.blinks
IsFixationProducer(line) == IsCloseLine(line, "EFIX")
IsSaccadeProducer(line) == IsCloseLine(line, "ESACC")
IsBlinkProducer(line) == IsCloseLine(line, "EBLINK")

\* C19: record ownership is exclusive: after any sequence of lines, no
\* gaze, fixation, saccade or blink record produced from one input line
\* appears in the lists of two different sealed trials: each line that
\* produces a record is held once, by one sealed trial or by the
\* accumulator.
C19_ExclusiveOwnership ==
    /\ Held(GazeOf, gaze) = Produced(f, IsGazeLine)
    /\ Held(FixationsOf, fixations) = Produced(f, IsFixationProducer)
    /\ Held(SaccadesOf, saccades) = Produced(f, IsSaccadeProducer)
    /\ Held(BlinksOf, blinks) = Produced(f, IsBlinkProducer)

\* Two sealed trials, the first holding the sample of FirstTrial and the
\* second a fixation of its own and nothing of the first.
C19_Witness ==
    /\ Len(trials) = 2
    /\ Len(trials[1].gaze) = 1
    /\ trials[2].gaze = <<>>
    /\ Len(trials[2].fixations) = 1

\* C20: the output sequence is append-only and in closing order: once a
\* trial is sealed no later line changes any of its fields or record lists,
\* the sequence grows only by one trial at its end when a TRIAL_END line is
\* read, and the trials are returned in that order.
C20_OutputIsAppendOnly ==
    [][/\ Len(trials') >= Len(trials)
       /\ SubSeq(trials', 1, Len(trials)) = trials
       /\ Len(trials') > Len(trials)
             => /\ ReadsLine
                /\ IsTrialEndLine(NewLine)
                /\ GrowsByOne(trials, trials')
                /\ Last(trials').end_time = MsAsSeconds(WireTime(NewLine))
       /\ status' = "returned" => result' = Some(trials)]_vars

\* Two trials returned in the order they closed, the second with the
\* earlier end time, after one more line was read.
C20_Witness ==
    /\ status = "returned"
    /\ Len(f) = 6
    /\ Len(result[1]) = 2
    /\ result[1][1].end_time = 2 /\ Len(result[1][1].gaze) = 1
    /\ result[1][2].end_time = 1
    /\ ~IsTrialEndLine(f[6])

\* C21: a sealed trial is available to the caller as soon as its TRIAL_END
\* line is read, before any later line is read.
C21_TrialSurfacesWhenSealed ==
    [][(status = "reading" /\ trial # None /\ ReadsLine /\ IsTrialEndLine(NewLine))
          => result' = Some(trials')]_vars

\* C22: a TRIAL_START read while a trial is open raises no error and
\* passes through, leaving the open trial's start_time, its accumulated
\* records and scalars, and the span flags as they were.
C22_StrayTrialStartPassesThrough ==
    [][(status = "reading" /\ trial # None /\ ReadsLine /\ IsTrialStartLine(NewLine))
          => /\ status' = "reading"
             /\ UNCHANGED <<trial, records, scalars, spans, trials>>]_vars

\* A trial opened at 1 ms, a TRIAL_START at 2 ms read inside it, and the
\* trial sealed with start_time 1 ms.
C22_Witness ==
    /\ Len(f) = 3
    /\ IsTrialStartLine(f[1]) /\ WireTime(f[1]) = 1
    /\ IsTrialStartLine(f[2]) /\ WireTime(f[2]) = 2
    /\ IsTrialEndLine(f[3])
    /\ Len(trials) = 1
    /\ trials[1].start_time = MsAsSeconds(1)

\* C23: parsing is one forward-only pass: each iteration reads exactly the
\* next line after the lines read before it, once the parse has ended no
\* line is read, and for every finite input the parse ends, with a result
\* or with an error.
C23_OneForwardPassThatTerminates ==
    /\ [][/\ f' = f \/ GrowsByOne(f, f')
          /\ status # "reading" => f' = f /\ status' = status
          /\ status' # "reading" => status' \in {"returned", "raised"}]_vars
    /\ <>(status \in {"returned", "raised"})

\* The parse of the six lines of ScenarioA has ended with a result.
C23_Witness ==
    /\ status = "returned"
    /\ Len(f) = Len(ScenarioA)
    /\ result # None
    /\ \A i \in 1..Len(f) : f[i] = ScenarioA[i]

\* The positions of h where a TRIAL_END is read while a trial is open: a
\* TRIAL_START comes before it with no TRIAL_END between the two.
IsSealAt(h, p) ==
    /\ IsTrialEndLine(h[p])
    /\ \E s \in 1..(p - 1) :
          /\ IsTrialStartLine(h[s])
          /\ \A e \in (s + 1)..(p - 1) : ~IsTrialEndLine(h[e])
Seals(h) == {p \in 1..Len(h) : IsSealAt(h, p)}
NthSeal(h, i) ==
    CHOOSE p \in Seals(h) : Cardinality({q \in Seals(h) : q <= p}) = i
SealBefore(h, p) ==
    LET before == {q \in Seals(h) : q < p}
    IN  IF before = {} THEN 0 ELSE CHOOSE q \in before : \A r \in before : r <= q

\* The lines read since the trial before the i-th sealed one was sealed,
\* up to the TRIAL_END that seals the i-th.
LinesOfTrial(h, i) ==
    SubSeq(h, SealBefore(h, NthSeal(h, i)) + 1, NthSeal(h, i) - 1)

\* The wire times, as seconds, of the lines of a segment that produce a
\* record of one type, in the order of the segment; the time is the field
\* at position `at` of the line.
WireTimes(segment, IsProducer(_), at) ==
    LET producers == SelectSeq(segment, IsProducer)
    IN  [j \in 1..Len(producers) |-> MsAsSeconds(producers[j][at].n)]
GazeTimes(list) == [j \in 1..Len(list) |-> list[j].time]
StartTimes(list) == [j \in 1..Len(list) |-> list[j].start]

\* C24: within each sealed trial, the gaze, fixation, saccade and blink
\* lists each hold their records in the order the producing lines were
\* read: no record is reordered, duplicated or dropped between being
\* appended and the trial being sealed.
C24_RecordsInReadingOrder ==
    \A i \in 1..Len(trials) :
        /\ i <= Cardinality(Seals(f))
        /\ GazeTimes(trials[i].gaze)
              = WireTimes(LinesOfTrial(f, i), IsGazeLine, 1)
        /\ StartTimes(trials[i].fixations)
              = WireTimes(LinesOfTrial(f, i), IsFixationProducer, 3)
        /\ StartTimes(trials[i].saccades)
              = WireTimes(LinesOfTrial(f, i), IsSaccadeProducer, 3)
        /\ StartTimes(trials[i].blinks)
              = WireTimes(LinesOfTrial(f, i), IsBlinkProducer, 3)

\* A sealed trial whose samples were read at 2 ms and then at 1 ms, and
\* hold that order.
C24_Witness ==
    /\ Len(trials) = 1
    /\ GazeTimes(trials[1].gaze) = <<MsAsSeconds(2), MsAsSeconds(1)>>

\* The line just read clears a span flag of the type of `keyword`: it is a
\* close marker of that type with its numeric fields, or a TRIAL_END read
\* while a trial is open.
MayClear(keyword) ==
    /\ ReadsLine
    /\ \/ IsCloseLine(NewLine, keyword)
       \/ IsTrialEndLine(NewLine) /\ trial # None

\* C25: a span flag that is true becomes false only by a close marker of
\* the same type that matches its full pattern, or by a TRIAL_END that seals
\* an open trial; every other line (a stray TRIAL_START, a TRIAL_END while
\* idle, a close-marker line that fails its pattern, a message, a gaze
\* sample, noise) leaves it true.
C25_FlagsClearedOnlyByCloseOrSeal ==
    [][/\ (is_fixation_event /\ ~is_fixation_event') => MayClear("EFIX")
       /\ (is_saccade_event /\ ~is_saccade_event') => MayClear("ESACC")
       /\ (is_blink_event /\ ~is_blink_event') => MayClear("EBLINK")]_vars

\* A fixation still open after an EFIX line that fails its pattern, a
\* TRIAL_END while idle and a TRIAL_START.
C25_Witness ==
    /\ Len(f) = 4
    /\ f[1] = SFIXLine
    /\ f[2] = BadEFIXLine
    /\ IsTrialEndLine(f[3])
    /\ IsTrialStartLine(f[4])
    /\ is_fixation_event

\* C26: a close marker (EFIX, ESACC, EBLINK) appends its record whether or
\* not a span of its type is open: a close with no open before it still
\* yields one record and leaves the flag false, and two closes after one
\* open yield two records.
C26_CloseAppendsWithoutOpen ==
    [][(status = "reading" /\ ReadsLine) =>
          /\ (IsEFIX(NewLine) /\ ~is_fixation_event)
                => GrowsByOne(fixations, fixations') /\ ~is_fixation_event'
          /\ (IsESACC(NewLine) /\ ~is_saccade_event)
                => GrowsByOne(saccades, saccades') /\ ~is_saccade_event'
          /\ (IsEBLINK(NewLine) /\ ~is_blink_event)
                => GrowsByOne(blinks, blinks') /\ ~is_blink_event']_vars

\* Two fixations from one SFIX and two EFIX, and a blink from an EBLINK
\* that no SBLINK comes before.
C26_Witness ==
    /\ Len(f) = 4
    /\ IsSFIX(f[1]) /\ IsEFIX(f[2]) /\ IsEFIX(f[3]) /\ IsEBLINK(f[4])
    /\ Len(fixations) = 2
    /\ Len(blinks) = 1
    /\ ~is_fixation_event /\ ~is_blink_event

\* The value of the last line of a segment that writes one scalar, None
\* if no line of the segment writes it.
LastValue(segment, IsWriter(_), Value(_)) ==
    LET writers == SelectSeq(segment, IsWriter)
    IN  IF writers = <<>> THEN None ELSE Some(Value(writers[Len(writers)]))
IsButtonPressLine(line) == IsMsgLine(line, "BUTTON_PRESS")
IsStimOnsetLine(line) == IsMsgLine(line, "VIDEO_STIM_ONSET")
IsSceneNameLine(line) == IsKeyLine(line, "scene_name")
IsTrialIndexLine(line) == IsKeyLine(line, "trial_index")
MsgTime(line) == MsAsSeconds(WireTime(line))
RtValue(line) == AsWritten(line[6])
TextValue(line) == line[6]
IndexValue(line) == line[6].n

C28_OneTrialPerSealingTrialEnd ==
    /\ Len(trials) = Cardinality(Seals(f))
    /\ Len(trials) <= Produced(f, IsTrialStartLine)
    /\ status = "returned" => result = Some(trials)

\* A TRIAL_END while idle, then a trial with a second TRIAL_START inside
\* it: one trial for two TRIAL_START and two TRIAL_END lines.
C28_Witness ==
    /\ status = "returned"
    /\ Len(f) = 4
    /\ IsTrialEndLine(f[1])
    /\ IsTrialStartLine(f[2])
    /\ IsTrialStartLine(f[3])
    /\ IsTrialEndLine(f[4])
    /\ Len(result[1]) = 1

\* The calls of one run_trial in the order of the claim, and of n of them.
TrialCalls ==
    << Message("TRIAL_START"), StartRecording, Message("VIDEO_STIM_ONSET"),
       Message("BUTTON_PRESS"), StopRecording,
       Message("!V TRIAL_VAR trial_index"), Message("!V TRIAL_VAR scene_name"),
       Message("!V TRIAL_VAR rt"), Message("TRIAL_END") >>
RECURSIVE Cycles(_)
Cycles(n) == IF n = 0 THEN <<>> ELSE Cycles(n - 1) \o TrialCalls
IsFrameMessage(c) == c = Message("!V VRAME")
IsTrialCall(c) == ~IsFrameMessage(c)

\* C29: every run_trial emits TRIAL_START first, VIDEO_STIM_ONSET after
\* recording has started, exactly one BUTTON_PRESS, then after recording
\* has stopped TRIAL_VAR trial_index, TRIAL_VAR scene_name, TRIAL_VAR rt,
\* and TRIAL_END last: the frame messages apart, the calls of a session
\* are at every moment the beginning of a repetition of that sequence, and
\* whole repetitions of it between two run_trial calls.
C29_RunTrialMessageOrder ==
    LET log == SelectSeq(eyelink, IsTrialCall)
    IN  /\ IsPrefix(log, Cycles(MaxRuns))
        /\ pc = "idle" => log = Cycles(id)

\* Two trials run, one ended by a key during the video after a frame
\* without a key, the other on the last frame.
C29_Witness ==
    /\ pc = "idle"
    /\ id = 2
    /\ Len(SelectSeq(eyelink, IsFrameMessage)) = 2
    /\ eyelink[4] = Message("BUTTON_PRESS")

\* The path of the pre or post video of an intra path.
PhasePath(v_path, phase) ==
    [j \in 1..Len(v_path) |-> IF v_path[j] = "_intra" THEN phase ELSE v_path[j]]
ReminderImage(button) ==
    <<"data/introduction/experiment_recorded_r", button, ".png">>
NotifierImage == <<"data/introduction/experiment_recorded.png">>

Partitioned == Len(groups) = 1
Groups == groups[1]

\* The lists of a list of lists, joined in order.
RECURSIVE Concatenation(_)
Concatenation(lists) ==
    IF lists = <<>> THEN <<>>
    ELSE Concatenation(SubSeq(lists, 1, Len(lists) - 1)) \o Last(lists)

\* C31: partition_list(items, num_groups) returns exactly num_groups groups
\* whose concatenation, in order, is items: every item is in exactly one
\* group, none lost and none twice, for every length of items, the lengths
\* smaller than num_groups included.
C31_GroupsPartitionItems ==
    Partitioned =>
        /\ Len(Groups) = num_groups
        /\ Concatenation(Groups) = items

\* Two items partitioned in four groups: three empty groups and both items
\* in the last.
C31_Witness ==
    /\ items = <<"a_intra.mp4", "b_intra.mp4">>
    /\ num_groups = 4
    /\ groups = Some(<< <<>>, <<>>, <<>>, <<"a_intra.mp4", "b_intra.mp4">> >>)

\* C32: each of the first num_groups-1 groups has len(items) // num_groups
\* items, the last group has the len(items) - (num_groups-1) *
\* (len(items) // num_groups) items that remain, and no group has more
\* items than the last.
C32_GroupSizes ==
    Partitioned =>
        LET n == Len(items)
            size == n \div num_groups
        IN  /\ \A i \in 1..(Len(Groups) - 1) : Len(Groups[i]) = size
            /\ Len(Last(Groups)) = n - (num_groups - 1) * size
            /\ \A i \in 1..Len(Groups) : Len(Last(Groups)) >= Len(Groups[i])

\* Six items in four groups: three groups of one item and a last group of
\* three.
C32_Witness ==
    /\ Len(items) = 6
    /\ num_groups = 4
    /\ Partitioned
    /\ Len(Groups) = 4
    /\ \A i \in 1..3 : Len(Groups[i]) = 1
    /\ Len(Groups[4]) = 3

\* The events of the session the claims on drift checks speak of.
ChoosesDisable(e) == e.ev = "return" /\ e.value = Some("disable")
CallsDriftCheck(e) == e.ev = "call" /\ e.fn = "drift_check"
CallsFakeDriftCheck(e) == e.ev = "call" /\ e.fn = "fake_drift_check"
ReturnsFromDriftCheck(e) == e.ev = "return" /\ e.fn = "drift_check"
StatusStrings == {"ok", "abort", "recalibrate", "disable"}

\* C33: once the experimenter has chosen (D)isable, in drift_check or in
\* fake_drift_check, disable_drift_checks is true in every later state,
\* doDriftCorrect is never called again, and every later call of
\* drift_check calls fake_drift_check at once.
C33_DisableIsPermanent ==
    \A i \in 1..Len(history) :
        ChoosesDisable(history[i]) =>
            /\ disable_drift_checks
            /\ \A j \in (i + 1)..Len(history) :
                  /\ history[j].ev # "doDriftCorrect"
                  /\ (CallsDriftCheck(history[j]) /\ j < Len(history))
                        => CallsFakeDriftCheck(history[j + 1])

\* (D)isable chosen at the prompt of a first drift check whose correction
\* raised, then a second drift check that went to the fake check and
\* returned 'ok' on 'space'.
C33_Witness ==
    /\ disable_drift_checks
    /\ stack = <<>>
    /\ history = << Call("drift_check", 1), DoDriftCorrect(1),
                    ReturnOf("drift_check", 1, Some("disable")),
                    Call("drift_check", 1), Call("fake_drift_check", 2),
                    ReturnOf("fake_drift_check", 2, Some("ok")),
                    ReturnOf("drift_check", 1, Some("ok")) >>

\* C34: every call of drift_check that returns, returns one of the strings
\* 'ok', 'abort', 'recalibrate', 'disable', the call whose drift correction
\* does not raise included.
C34_DriftCheckReturnsAStatus ==
    \A i \in 1..Len(history) :
        ReturnsFromDriftCheck(history[i]) =>
            \E status_string \in StatusStrings : history[i].value = Some(status_string)

====
